---- MODULE Spec2Model ----
(***************************************************************************)
(* Office-PowerPoint-MCP-Server: the path sanitizer (utils/core_utils.py)  *)
(* and the S3 object transfer adapter (utils/s3_utils.py, tools/s3_tools). *)
(*                                                                         *)
(* A path string is a record [abs, segs]: abs says that the string starts  *)
(* with "/", segs are the pieces between the slashes.  A canonical path is *)
(* the sequence of its component names below the root (the root is <<>>).  *)
(* The filesystem is the set of its symbolic links: a function from the    *)
(* canonical path of a link to the path string stored in the link.         *)
(***************************************************************************)
EXTENDS Integers, Sequences, FiniteSets, TLC

VARIABLES links, san_in, san_out,
          s3_clients, presentations, current_presentation_id, buckets,
          call, ret, raised, requests, last_upload, escaped,
          try_in, try_out

path_vars == <<links, san_in, san_out>>

s3_vars == <<s3_clients, presentations, current_presentation_id, buckets,
             call, ret, raised, requests, last_upload, escaped>>

try_vars == <<try_in, try_out>>

vars == <<path_vars, s3_vars, try_vars>>

\* ------------------------------------------------------------------ bounds
MaxSegs == 4
MaxPres == 2
MaxKeys == 2
MaxRows == 2
MaxSlides == 4
MaxApproaches == 3

\* ---------------------------------------------------------------- universe
Names == {"a", "ab", "l"}
Segments == Names \cup {".", ".."}

RECURSIVE SeqsUpTo(_, _)
SeqsUpTo(S, n) ==
    IF n = 0 THEN {<<>>}
    ELSE LET shorter == SeqsUpTo(S, n - 1)
         IN  shorter \cup {Append(s, x) : s \in shorter, x \in S}

PathStr(a, s) == [abs |-> a, segs |-> s]

RawPaths == {PathStr(a, s) : a \in BOOLEAN, s \in SeqsUpTo(Segments, MaxSegs)}

\* an optional argument: <<>> is Python's None, <<v>> carries the value v
None == <<>>
Some(v) == <<v>>

\* os.getcwd(): the canonical working directory of the server process
getcwd == <<"a">>

\* the base_dir arguments tried: default (cwd), the root, a nested directory,
\* a directory reached through a symbolic link, a relative one
BaseDirs == {None,
             Some(PathStr(TRUE, <<>>)),
             Some(PathStr(TRUE, <<"a", "ab">>)),
             Some(PathStr(TRUE, <<"l">>)),
             Some(PathStr(FALSE, <<"..", "ab">>))}

\* the filesystems tried (only their symbolic links matter to resolve())
NoLinks == [p \in {} |-> PathStr(TRUE, <<>>)]

LinkOut ==
    [p \in {<<"a", "l">>, <<"l">>} |->
        IF p = <<"a", "l">> THEN PathStr(TRUE, <<"ab">>)
                            ELSE PathStr(FALSE, <<"a">>)]

LinkIn ==
    [p \in {<<"a", "l">>, <<"l">>, <<"a", "ab", "l">>} |->
        IF p = <<"a", "l">> THEN PathStr(FALSE, <<"ab", "a">>)
        ELSE IF p = <<"l">> THEN PathStr(TRUE, <<"a", "ab">>)
        ELSE PathStr(FALSE, <<"..", "..">>)]

FileSystems == {NoLinks, LinkOut, LinkIn}

\* --------------------------------------------------------- pathlib helpers
Front(s) == SubSeq(s, 1, Len(s) - 1)

\* pathlib.Path(s).parts below the root: empty and "." pieces are dropped,
\* ".." pieces are kept
RECURSIVE parts(_)
parts(segs) ==
    IF segs = <<>> THEN <<>>
    ELSE IF Head(segs) \in {"", "."} THEN parts(Tail(segs))
    ELSE <<Head(segs)>> \o parts(Tail(segs))

is_absolute(p) == p.abs

\* Path.name: the final component, "" when there is none
name(p) ==
    LET ps == parts(p.segs)
    IN  IF ps = <<>> THEN "" ELSE ps[Len(ps)]

\* os.path.realpath walk used by Path.resolve(): path is the canonical prefix
\* resolved so far, rest the pieces still to walk
RECURSIVE joinrealpath(_, _, _)
joinrealpath(path, rest, fs) ==
    IF rest = <<>> THEN path
    ELSE LET nm == Head(rest)
             tl == Tail(rest)
         IN  IF nm \in {"", "."} THEN joinrealpath(path, tl, fs)
             ELSE IF nm = ".."
                  THEN joinrealpath(IF path = <<>> THEN <<>> ELSE Front(path),
                                    tl, fs)
             ELSE LET newpath == Append(path, nm)
                  IN  IF newpath \notin DOMAIN fs
                      THEN joinrealpath(newpath, tl, fs)
                      ELSE LET target == fs[newpath]
                               start  == IF target.abs THEN <<>> ELSE path
                           IN  joinrealpath(
                                   joinrealpath(start, target.segs, fs),
                                   tl, fs)

\* Path(p).resolve(): a relative path is resolved from the working directory
resolve(p, fs) ==
    PathStr(TRUE, joinrealpath(IF p.abs THEN <<>> ELSE getcwd, p.segs, fs))

\* base_path / other  (base_path is absolute)
join(base_path, other) ==
    IF other.abs THEN other
    ELSE PathStr(TRUE, base_path.segs \o other.segs)

\* a containment test that accepts proper descendants only
relative_to_strict(path, base) ==
    /\ Len(parts(base.segs)) < Len(parts(path.segs))
    /\ SubSeq(parts(path.segs), 1, Len(parts(base.segs))) = parts(base.segs)

\* text.startswith(prefix) for two component names
NameStartsWith(text, prefix) ==
    text = prefix \/ (prefix = "a" /\ text = "ab")

\* a containment test on the text of the two paths: str(path).startswith(str(base))
relative_to_text(path, base) ==
    LET b == parts(base.segs)
        q == parts(path.segs)
    IN  \/ b = <<>>
        \/ /\ Len(b) <= Len(q)
           /\ SubSeq(q, 1, Len(b) - 1) = Front(b)
           /\ NameStartsWith(q[Len(b)], b[Len(b)])

\* PurePath.relative_to(base): TRUE when it returns, FALSE when it raises
relative_to(path, base) ==
    /\ Len(parts(base.segs)) <= Len(parts(path.segs))
    /\ SubSeq(parts(path.segs), 1, Len(parts(base.segs))) = parts(base.segs)

\* ------------------------------------------------------------ sanitize_path
Returned(p) == [kind |-> "return", path |-> p]
Raised(k) == [kind |-> k, path |-> PathStr(FALSE, <<>>)]

\* sanitize_path testing containment on the joined path before resolve()
sanitize_path_unresolved(file_path, base_dir, allow_absolute, fs) ==
    LET base      == IF base_dir = None THEN PathStr(TRUE, getcwd)
                     ELSE base_dir[1]
        base_path == resolve(base, fs)
        joined    == IF is_absolute(file_path)
                     THEN join(base_path, PathStr(FALSE, <<name(file_path)>>))
                     ELSE join(base_path, file_path)
    IN  IF allow_absolute /\ is_absolute(file_path)
        THEN Returned(resolve(file_path, fs))
        ELSE IF relative_to(joined, base_path)
             THEN Returned(resolve(joined, fs))
             ELSE Raised("PathTraversal")

\* sanitize_path that re-roots an absolute path even when allow_absolute
sanitize_path_reroot(file_path, base_dir, allow_absolute, fs) ==
    LET base      == IF base_dir = None THEN PathStr(TRUE, getcwd)
                     ELSE base_dir[1]
        base_path == resolve(base, fs)
        resolved_path ==
            IF is_absolute(file_path)
            THEN resolve(join(base_path,
                              PathStr(FALSE, <<name(file_path)>>)), fs)
            ELSE resolve(join(base_path, file_path), fs)
    IN  IF relative_to(resolved_path, base_path)
        THEN Returned(resolved_path)
        ELSE Raised("PathTraversal")

\* sanitize_path keeping only the final component of relative paths too
sanitize_path_nameonly(file_path, base_dir, allow_absolute, fs) ==
    LET base      == IF base_dir = None THEN PathStr(TRUE, getcwd)
                     ELSE base_dir[1]
        base_path == resolve(base, fs)
    IN  IF allow_absolute /\ is_absolute(file_path)
        THEN Returned(resolve(file_path, fs))
        ELSE LET resolved_path ==
                     resolve(join(base_path,
                                  PathStr(FALSE, <<name(file_path)>>)), fs)
             IN  IF relative_to(resolved_path, base_path)
                 THEN Returned(resolved_path)
                 ELSE Raised("PathTraversal")

\* sanitize_path joining the whole absolute path instead of its name
sanitize_path_keepdir(file_path, base_dir, allow_absolute, fs) ==
    LET base      == IF base_dir = None THEN PathStr(TRUE, getcwd)
                     ELSE base_dir[1]
        base_path == resolve(base, fs)
    IN  IF allow_absolute /\ is_absolute(file_path)
        THEN Returned(resolve(file_path, fs))
        ELSE LET resolved_path ==
                     resolve(join(base_path,
                                  PathStr(FALSE, file_path.segs)), fs)
             IN  IF relative_to(resolved_path, base_path)
                 THEN Returned(resolved_path)
                 ELSE Raised("PathTraversal")

\* sanitize_path whose allow_absolute flag lifts the check for every path
sanitize_path_allow_any(file_path, base_dir, allow_absolute, fs) ==
    LET base      == IF base_dir = None THEN PathStr(TRUE, getcwd)
                     ELSE base_dir[1]
        base_path == resolve(base, fs)
    IN  IF allow_absolute
        THEN Returned(resolve(file_path, fs))
        ELSE LET resolved_path ==
                     IF is_absolute(file_path)
                     THEN resolve(join(base_path,
                                       PathStr(FALSE, <<name(file_path)>>)), fs)
                     ELSE resolve(join(base_path, file_path), fs)
             IN  IF relative_to(resolved_path, base_path)
                 THEN Returned(resolved_path)
                 ELSE Raised("PathTraversal")

sanitize_path(file_path, base_dir, allow_absolute, fs) ==
    LET base      == IF base_dir = None THEN PathStr(TRUE, getcwd)
                     ELSE base_dir[1]
        base_path == resolve(base, fs)
    IN  IF allow_absolute /\ is_absolute(file_path)
        THEN Returned(resolve(file_path, fs))
        ELSE LET resolved_path ==
                     IF is_absolute(file_path)
                     THEN resolve(join(base_path,
                                       PathStr(FALSE, <<name(file_path)>>)), fs)
                     ELSE resolve(join(base_path, file_path), fs)
             IN  IF relative_to(resolved_path, base_path)
                 THEN Returned(resolved_path)
                 ELSE Raised("PathTraversal")

\* -------------------------------------------------- try_multiple_approaches
\* an approach is (approach_func, description); calling approach_func either
\* returns a value or raises an Exception whose str() is the text
Returns(v) == [raises |-> FALSE, value |-> v]
Raises(text) == [raises |-> TRUE, value |-> text]
Approaches ==
    [func : {Returns("r1"), Returns("r2"), Raises("e1"), Raises("e2")},
     description : {"d1", "d2"}]
OperationNames == {"open"}

\* '; '.join(error_messages); a string is the sequence of its pieces
RECURSIVE join_semicolon(_)
join_semicolon(messages) ==
    IF messages = <<>> THEN <<>>
    ELSE IF Len(messages) = 1 THEN Head(messages)
    ELSE Head(messages) \o <<"; ">> \o join_semicolon(Tail(messages))

\* the function's return value and the approaches it has called, in order
TryResult(result, error, called) ==
    [kind |-> "return", result |-> result, error |-> error, called |-> called]

\* a loop that goes on after a success and keeps the last result
RECURSIVE try_loop_last(_, _, _, _, _)
try_loop_last(operation_name, approaches, i, error_messages, found) ==
    IF i > Len(approaches)
    THEN IF found # None
         THEN TryResult(found, None, [k \in 1..Len(approaches) |-> k])
         ELSE TryResult(None,
                        Some(<<"Failed to ", operation_name,
                               " after trying multiple approaches: ">>
                             \o join_semicolon(error_messages)),
                        [k \in 1..Len(approaches) |-> k])
    ELSE IF ~approaches[i].func.raises
    THEN try_loop_last(operation_name, approaches, i + 1, error_messages,
                       Some(approaches[i].func.value))
    ELSE try_loop_last(operation_name, approaches, i + 1,
                       Append(error_messages,
                              <<approaches[i].description, ": ",
                                approaches[i].func.value>>),
                       found)

try_multiple_approaches_last(operation_name, approaches) ==
    try_loop_last(operation_name, approaches, 1, <<>>, None)

\* the for loop from its i-th iteration on
RECURSIVE try_loop(_, _, _, _)
try_loop(operation_name, approaches, i, error_messages) ==
    IF i > Len(approaches)
    THEN TryResult(None,
                   Some(<<"Failed to ", operation_name,
                          " after trying multiple approaches: ">>
                        \o join_semicolon(error_messages)),
                   [k \in 1..Len(approaches) |-> k])
    ELSE IF ~approaches[i].func.raises
    THEN TryResult(Some(approaches[i].func.value), None,
                   [k \in 1..i |-> k])
    ELSE try_loop(operation_name, approaches, i + 1,
                  Append(error_messages,
                         <<approaches[i].description, ": ",
                           approaches[i].func.value>>))

try_multiple_approaches(operation_name, approaches) ==
    try_loop(operation_name, approaches, 1, <<>>)

\* ================================================== S3 transfer adapter
\* documents: the slide count and the title text of the first slide
Doc(n, t) == [slides |-> n, title |-> t]
Deck1 == Doc(1, <<84>>)
Deck2 == Doc(2, <<83, 51>>)
Docs == {Deck1, Deck2}

\* the bytes of an object that is no presentation
Garbage == <<0>>

ConnNames == {"default", "Default"}
Endpoints == {"http://minio:9000", "not-a-url"}
ExistingBuckets == {"bk"}
BucketNames == {"bk", "nb"}
Keys == {"k1", "k2"}
Locations == {<<"bk", "k1">>, <<"bk", "k2">>, <<"nb", "k1">>}
Metadatas == {None, Some(<<>>), Some([author |-> "test-script"])}

\* f"presentation_{n}"
IdNames == <<"presentation_1", "presentation_2", "presentation_3",
             "presentation_4", "presentation_5">>
format_id(n) == IdNames[n]

\* the ids a caller may pass, and every id the store may hold
ExplicitIds == {"presentation_2"}
PresIds == ExplicitIds \cup {format_id(n) : n \in 1..MaxPres}

EmptyMap == [x \in {} |-> x]

\* ---- io.BytesIO: the bytes written and the cursor
BytesIO == [data |-> <<>>, pos |-> 0]
write(buffer, bytes) ==
    [data |-> SubSeq(buffer.data, 1, buffer.pos) \o bytes,
     pos  |-> buffer.pos + Len(bytes)]
seek(buffer, n) == [buffer EXCEPT !.pos = n]
seek_end(buffer) == [buffer EXCEPT !.pos = Len(buffer.data)]
tell(buffer) == buffer.pos
read(buffer) == SubSeq(buffer.data, buffer.pos + 1, Len(buffer.data))

\* ---- the document library: presentation.save(buffer), Presentation(buffer)
Serialize(doc) == <<80, 75, doc.slides, Len(doc.title)>> \o doc.title

save(doc, buffer) == write(buffer, Serialize(doc))

IsPackage(bytes) ==
    /\ Len(bytes) >= 4
    /\ bytes[1] = 80 /\ bytes[2] = 75
    /\ Len(bytes) = 4 + bytes[4]

\* the package reader finds its directory from the end of the buffer
Presentation(buffer) ==
    Doc(buffer.data[3], SubSeq(buffer.data, 5, Len(buffer.data)))

\* ---- the storage client: responses of the backend
Ok == [kind |-> "ok", code |-> ""]
ClientError(c) == [kind |-> "ClientError", code |-> c]
NoCredentialsError == [kind |-> "NoCredentialsError", code |-> ""]
EndpointConnectionError == [kind |-> "EndpointConnectionError", code |-> ""]

\* failures the backend or the transport may answer any request with
Faults == {NoCredentialsError, ClientError("InvalidAccessKeyId"),
           EndpointConnectionError}

\* the error codes by which a backend reports an absent object or bucket
AbsentObjectCodes == {"NoSuchKey", "404"}
AbsentBucketCodes == {"NoSuchBucket", "404"}

HasObject(store, bucket, key) ==
    bucket \in DOMAIN store /\ key \in DOMAIN store[bucket]

\* s3_client.put_object: the responses possible in this state
put_object_responses(store, bucket) ==
    Faults \cup (IF bucket \in DOMAIN store THEN {Ok}
                 ELSE {ClientError("NoSuchBucket")})

\* s3_client.download_fileobj
download_fileobj_responses(store, bucket, key) ==
    Faults \cup (IF bucket \notin DOMAIN store
                 THEN {ClientError(c) : c \in AbsentBucketCodes}
                 ELSE IF key \notin DOMAIN store[bucket]
                 THEN {ClientError(c) : c \in AbsentObjectCodes}
                 ELSE {Ok})

\* s3_client.delete_object: succeeds whether or not the key exists
delete_object_responses(store, bucket) ==
    Faults \cup (IF bucket \in DOMAIN store THEN {Ok}
                 ELSE {ClientError("NoSuchBucket")})

PutInto(store, bucket, key, body) ==
    [store EXCEPT ![bucket] =
        [k \in DOMAIN store[bucket] \cup {key} |->
            IF k = key THEN body ELSE store[bucket][k]]]

RemoveFrom(store, bucket, key) ==
    [store EXCEPT ![bucket] =
        [k \in DOMAIN store[bucket] \ {key} |-> store[bucket][k]]]

\* ---- utils/s3_utils.py
ContentType ==
    "application/vnd.openxmlformats-officedocument.presentationml.presentation"

Return(v) == [kind |-> "return", value |-> v]
Raise(k, msg) == [kind |-> k, value |-> msg]

\* the request, the function's outcome and the store after the call
Outcome(reqs, out, store) == [requests |-> reqs, out |-> out, store |-> store]

\* a client call that is issued a second time
Logged_twice(args, resp) ==
    <<[call |-> args, response |-> [kind |-> resp.kind, code |-> resp.code]],
      [call |-> args, response |-> [kind |-> resp.kind, code |-> resp.code]]>>

\* the call made to the storage client and the answer it got
Logged(args, resp) ==
    <<[call |-> args, response |-> [kind |-> resp.kind, code |-> resp.code]]>>

\* a test that only asks whether the caller passed a mapping
Truthy_supplied(metadata) == metadata # None

\* 'if metadata:' is false for None and for an empty mapping
Truthy(metadata) == metadata # None /\ DOMAIN metadata[1] # {}

upload_args(bucket_name, object_key, buffer, metadata) ==
    IF Truthy(metadata)
    THEN [api |-> "put_object", Bucket |-> bucket_name, Key |-> object_key,
          Body |-> read(buffer), ContentType |-> ContentType,
          Metadata |-> metadata[1]]
    ELSE [api |-> "put_object", Bucket |-> bucket_name, Key |-> object_key,
          Body |-> read(buffer), ContentType |-> ContentType]

\* the buffer left at the end of the written bytes
save_to_buffer_no_rewind(presentation) == save(presentation, BytesIO)

\* buffer = io.BytesIO(); presentation.save(buffer); buffer.seek(0)
save_to_buffer(presentation) == seek(save(presentation, BytesIO), 0)

s3_upload_presentation_to_s3(presentation, store, bucket_name, object_key, metadata, resp) ==
    LET buffer == save_to_buffer(presentation)
        args   == upload_args(bucket_name, object_key, buffer, metadata)
        size   == tell(seek_end(buffer))
        reqs   == Logged(args, resp)
    IN  IF resp = Ok
        THEN Outcome(reqs,
                     Return([success |-> TRUE, bucket |-> bucket_name,
                             key |-> object_key, size_bytes |-> size,
                             message |-> <<"Successfully uploaded presentation to s3://",
                                           bucket_name, "/", object_key>>]),
                     PutInto(store, args.Bucket, args.Key, args.Body))
        ELSE IF resp.kind = "NoCredentialsError"
        THEN Outcome(reqs,
                     Raise("ValueError", <<"Invalid S3 credentials provided">>),
                     store)
        ELSE IF resp.kind = "ClientError"
        THEN Outcome(reqs,
                     Raise("Exception",
                           <<"S3 upload failed (", resp.code, ")">>),
                     store)
        ELSE Outcome(reqs,
                     Raise("Exception",
                           <<"Failed to upload presentation to S3: ",
                             resp.kind>>),
                     store)

s3_download_presentation_from_s3(store, bucket_name, object_key, resp) ==
    LET args == [api |-> "download_fileobj", Bucket |-> bucket_name,
                 Key |-> object_key]
        reqs == Logged(args, resp)
    IN  IF resp = Ok
        THEN LET buffer ==
                     seek(write(BytesIO, store[bucket_name][object_key]), 0)
             IN  IF IsPackage(buffer.data)
                 THEN Outcome(reqs, Return(Presentation(buffer)), store)
                 ELSE Outcome(reqs,
                              Raise("Exception",
                                    <<"Failed to download presentation from S3: ",
                                      "PackageNotFoundError">>),
                              store)
        ELSE IF resp.kind = "NoCredentialsError"
        THEN Outcome(reqs,
                     Raise("ValueError", <<"Invalid S3 credentials provided">>),
                     store)
        ELSE IF resp.kind = "ClientError"
        THEN IF resp.code = "NoSuchKey"
             THEN Outcome(reqs,
                          Raise("FileNotFoundError",
                                <<"Object not found: s3://", bucket_name, "/",
                                  object_key>>),
                          store)
             ELSE IF resp.code = "NoSuchBucket"
             THEN Outcome(reqs,
                          Raise("FileNotFoundError",
                                <<"Bucket not found: ", bucket_name>>),
                          store)
             ELSE Outcome(reqs,
                          Raise("Exception",
                                <<"S3 download failed (", resp.code, ")">>),
                          store)
        ELSE Outcome(reqs,
                     Raise("Exception",
                           <<"Failed to download presentation from S3: ",
                             resp.kind>>),
                     store)

\* a delete that reports a key it did not find
s3_delete_s3_object_checked(store, bucket_name, object_key, resp) ==
    LET args == [api |-> "delete_object", Bucket |-> bucket_name,
                 Key |-> object_key]
        reqs == Logged(args, resp)
    IN  IF resp = Ok /\ HasObject(store, bucket_name, object_key)
        THEN Outcome(reqs,
                     Return([success |-> TRUE, bucket |-> bucket_name,
                             key |-> object_key,
                             message |-> <<"Successfully deleted s3://",
                                           bucket_name, "/", object_key>>]),
                     RemoveFrom(store, bucket_name, object_key))
        ELSE IF resp = Ok
        THEN Outcome(reqs,
                     Raise("FileNotFoundError",
                           <<"Object not found: s3://", bucket_name, "/",
                             object_key>>),
                     store)
        ELSE Outcome(reqs,
                     Raise("Exception",
                           <<"S3 delete failed (", resp.code, ")">>),
                     store)

s3_delete_s3_object(store, bucket_name, object_key, resp) ==
    LET args == [api |-> "delete_object", Bucket |-> bucket_name,
                 Key |-> object_key]
        reqs == Logged(args, resp)
    IN  IF resp = Ok
        THEN Outcome(reqs,
                     Return([success |-> TRUE, bucket |-> bucket_name,
                             key |-> object_key,
                             message |-> <<"Successfully deleted s3://",
                                           bucket_name, "/", object_key>>]),
                     RemoveFrom(store, bucket_name, object_key))
        ELSE IF resp.kind = "ClientError"
        THEN Outcome(reqs,
                     Raise("Exception",
                           <<"S3 delete failed (", resp.code, ")">>),
                     store)
        ELSE Outcome(reqs,
                     Raise("Exception",
                           <<"Failed to delete S3 object: ", resp.kind>>),
                     store)

\* ---- listing and metadata (utils/s3_utils.py)
\* the prefixes tried, and the keys in the order the backend lists them
Prefixes == {None, Some("k1")}
KeyOrder == <<"k1", "k2">>

\* key.startswith(prefix) for the prefixes above
StartsWith(key, prefix) == prefix = "" \/ prefix = key

\* the keys of the bucket the request matches, in listing order
Matching(store, bucket, prefix) ==
    SelectSeq(KeyOrder,
              LAMBDA k : k \in DOMAIN store[bucket]
                         /\ (prefix = None \/ StartsWith(k, prefix[1])))

Take(seq, n) == SubSeq(seq, 1, IF n < Len(seq) THEN n ELSE Len(seq))

\* 'if prefix:' is false for None and for the empty string
list_args(bucket_name, prefix, max_keys) ==
    IF prefix # None /\ prefix[1] # ""
    THEN [api |-> "list_objects_v2", Bucket |-> bucket_name,
          MaxKeys |-> max_keys, Prefix |-> prefix[1]]
    ELSE [api |-> "list_objects_v2", Bucket |-> bucket_name,
          MaxKeys |-> max_keys]

\* s3_client.list_objects_v2: at most MaxKeys keys and whether more exist;
\* to MaxKeys = 0 the backend answers an empty page that is not truncated
list_objects_v2_responses(store, args) ==
    Faults \cup
    (IF args.Bucket \notin DOMAIN store THEN {ClientError("NoSuchBucket")}
     ELSE LET prefix == IF "Prefix" \in DOMAIN args THEN Some(args.Prefix)
                        ELSE None
              all    == Matching(store, args.Bucket, prefix)
              page   == Take(all, args.MaxKeys)
          IN  {[kind |-> "ok", code |-> "",
                Contents |-> [i \in 1..Len(page) |->
                                 [Key |-> page[i],
                                  Size |-> Len(store[args.Bucket][page[i]])]],
                IsTruncated |-> t] :
               t \in {args.MaxKeys > 0 /\ Len(page) < Len(all)}})

\* s3_client.head_object: a HEAD answer carries no error document, so a
\* missing bucket is reported like a missing key
head_object_responses(store, bucket, key) ==
    Faults \cup (IF ~HasObject(store, bucket, key)
                 THEN {ClientError(c) : c \in AbsentObjectCodes}
                 ELSE {Ok})

s3_list_s3_objects(store, bucket_name, prefix, max_keys, resp) ==
    LET args == list_args(bucket_name, prefix, max_keys)
        reqs == Logged(args, resp)
    IN  IF resp.kind = "ok"
        THEN LET objects == [i \in 1..Len(resp.Contents) |->
                                [key |-> resp.Contents[i].Key,
                                 size_bytes |-> resp.Contents[i].Size]]
             IN  Outcome(reqs,
                         Return([bucket |-> bucket_name,
                                 prefix |-> IF prefix = None THEN ""
                                            ELSE prefix[1],
                                 object_count |-> Len(objects),
                                 objects |-> objects,
                                 is_truncated |-> resp.IsTruncated]),
                         store)
        ELSE IF resp.kind = "ClientError"
        THEN IF resp.code = "NoSuchBucket"
             THEN Outcome(reqs,
                          Raise("FileNotFoundError",
                                <<"Bucket not found: ", bucket_name>>),
                          store)
             ELSE Outcome(reqs,
                          Raise("Exception",
                                <<"S3 list failed (", resp.code, ")">>),
                          store)
        ELSE Outcome(reqs,
                     Raise("Exception",
                           <<"Failed to list S3 objects: ", resp.kind>>),
                     store)

\* a metadata fetch that knows the 'NoSuchKey' code only
s3_get_s3_object_metadata_nosuchkey(store, bucket_name, object_key, resp) ==
    LET args == [api |-> "head_object", Bucket |-> bucket_name,
                 Key |-> object_key]
        reqs == Logged(args, resp)
    IN  IF resp = Ok
        THEN Outcome(reqs,
                     Return([bucket |-> bucket_name, key |-> object_key,
                             size_bytes |-> Len(store[bucket_name][object_key]),
                             content_type |-> ContentType]),
                     store)
        ELSE IF resp.kind = "ClientError" /\ resp.code = "NoSuchKey"
        THEN Outcome(reqs,
                     Raise("FileNotFoundError",
                           <<"Object not found: s3://", bucket_name, "/",
                             object_key>>),
                     store)
        ELSE Outcome(reqs,
                     Raise("Exception", <<"S3 head object failed">>), store)

\* the object's time stamp, etag and user metadata are not kept by the store
s3_get_s3_object_metadata(store, bucket_name, object_key, resp) ==
    LET args == [api |-> "head_object", Bucket |-> bucket_name,
                 Key |-> object_key]
        reqs == Logged(args, resp)
    IN  IF resp = Ok
        THEN Outcome(reqs,
                     Return([bucket |-> bucket_name, key |-> object_key,
                             size_bytes |-> Len(store[bucket_name][object_key]),
                             content_type |-> ContentType]),
                     store)
        ELSE IF resp.kind = "ClientError"
        THEN IF resp.code = "404" \/ resp.code = "NoSuchKey"
             THEN Outcome(reqs,
                          Raise("FileNotFoundError",
                                <<"Object not found: s3://", bucket_name, "/",
                                  object_key>>),
                          store)
             ELSE Outcome(reqs,
                          Raise("Exception",
                                <<"S3 head object failed (", resp.code, ")">>),
                          store)
        ELSE Outcome(reqs,
                     Raise("Exception",
                           <<"Failed to get S3 object metadata: ", resp.kind>>),
                     store)

\* ---- tools/s3_tools.py
\* s3_utils.create_s3_client: boto3 rejects an endpoint that is no URL
create_s3_client(endpoint_url, region) ==
    IF endpoint_url = "not-a-url"
    THEN Raise("ValueError", <<"Invalid endpoint: ", endpoint_url>>)
    ELSE Return([endpoint_url |-> endpoint_url,
                 region_name |-> IF region = None THEN "us-east-1"
                                 ELSE region[1]])

NotConfigured(connection_name) ==
    [error |-> <<"S3 connection '", connection_name,
                 "' not found. Please configure it first using configure_s3_connection.">>]

\* str(e) of a raised outcome
str(out) == out.value

\* a store that keeps the document already held under the id
Store_setdefault(pres, id, doc) ==
    [i \in DOMAIN pres \cup {id} |-> IF i \in DOMAIN pres THEN pres[i] ELSE doc]

\* presentations[id] = pres
Store(pres, id, doc) ==
    [i \in DOMAIN pres \cup {id} |-> IF i = id THEN doc ELSE pres[i]]

\* a lookup that lets the name "default" through without a registration
is_configured_default(connection_name, clients) ==
    connection_name = "default" \/ connection_name \in DOMAIN clients

\* 'connection_name in _s3_clients'
is_configured(connection_name, clients) == connection_name \in DOMAIN clients

\* a cache that holds the newest connection only
register_only(clients, connection_name, s3_client) ==
    [n \in {connection_name} |-> s3_client]

\* _s3_clients[connection_name] = s3_client
register(clients, connection_name, s3_client) ==
    [n \in DOMAIN clients \cup {connection_name} |->
        IF n = connection_name THEN s3_client ELSE clients[n]]

\* a registration made before the client is known to exist
configured_eager(clients, connection_name, out) ==
    register(clients, connection_name,
             IF out.kind = "return" THEN out.value
             ELSE [endpoint_url |-> "", region_name |-> ""])

\* the registry after create_s3_client returned or raised inside the try
configured(clients, connection_name, out) ==
    IF out.kind = "return" THEN register(clients, connection_name, out.value)
    ELSE clients

\* the tool returns before it reaches the storage client
Refuse(tool, connection_name, result) ==
    /\ call' = [tool |-> tool, connection_name |-> connection_name]
    /\ ret' = result
    /\ requests' = <<>>
    /\ raised' = "none"
    /\ UNCHANGED <<s3_clients, presentations, current_presentation_id,
                   buckets, last_upload, path_vars, escaped, try_vars>>

configure_s3_connection ==
    \E connection_name \in ConnNames, endpoint_url \in Endpoints :
        LET out == create_s3_client(endpoint_url, None)
        IN  /\ call' = [tool |-> "configure_s3_connection",
                        connection_name |-> connection_name]
            /\ requests' = <<>>
            /\ raised' = "none"
            /\ IF out.kind = "return"
               THEN /\ ret' = [success |-> TRUE,
                               connection_name |-> connection_name,
                               endpoint_url |-> endpoint_url,
                               region |-> "us-east-1"]
               ELSE /\ ret' = [error |-> <<"Failed to configure S3 connection: ">>
                                         \o str(out)]
            /\ s3_clients' = configured(s3_clients, connection_name, out)
            /\ UNCHANGED <<presentations, current_presentation_id, buckets,
                           last_upload, path_vars, escaped, try_vars>>

upload_presentation_to_s3 ==
    \E connection_name \in ConnNames :
        IF ~is_configured(connection_name, s3_clients)
        THEN Refuse("upload_presentation_to_s3", connection_name,
                    NotConfigured(connection_name))
        ELSE \E presentation_id \in {None} \cup {Some(i) : i \in ExplicitIds} :
             LET pres_id == IF presentation_id # None THEN presentation_id
                            ELSE current_presentation_id
             IN  IF pres_id = None \/ pres_id[1] \notin DOMAIN presentations
                 THEN Refuse("upload_presentation_to_s3", connection_name,
                             [error |-> <<"No presentation is currently loaded or the specified ID is invalid">>])
                 ELSE \E <<bucket_name, object_key>> \in Locations,
                         metadata \in Metadatas :
                      \E resp \in put_object_responses(buckets, bucket_name) :
                      LET r == s3_upload_presentation_to_s3(
                                   presentations[pres_id[1]], buckets,
                                   bucket_name, object_key, metadata, resp)
                      IN  /\ call' = [tool |-> "upload_presentation_to_s3",
                                      connection_name |-> connection_name,
                                      metadata |-> metadata]
                          /\ requests' = r.requests
                          /\ raised' = r.out.kind
                          /\ buckets' = r.store
                          /\ IF r.out.kind = "return"
                             THEN /\ ret' = [success |-> TRUE,
                                             bucket |-> r.out.value.bucket,
                                             key |-> r.out.value.key,
                                             size_bytes |-> r.out.value.size_bytes,
                                             message |-> r.out.value.message,
                                             presentation_id |-> pres_id[1],
                                             connection_name |-> connection_name]
                                  /\ last_upload' =
                                         [k \in DOMAIN last_upload \cup
                                                 {<<bucket_name, object_key>>}
                                             |-> IF k = <<bucket_name, object_key>>
                                                 THEN presentations[pres_id[1]]
                                                 ELSE last_upload[k]]
                             ELSE /\ ret' = [error |-> <<"Failed to upload presentation: ">>
                                                       \o str(r.out)]
                                  /\ last_upload' = last_upload
                          /\ UNCHANGED <<s3_clients, presentations,
                                         current_presentation_id, path_vars,
                                         escaped, try_vars>>

download_presentation_from_s3 ==
    \E connection_name \in ConnNames :
        IF ~is_configured(connection_name, s3_clients)
        THEN Refuse("download_presentation_from_s3", connection_name,
                    NotConfigured(connection_name))
        ELSE \E <<bucket_name, object_key>> \in Locations,
                id \in {None} \cup {Some(i) : i \in ExplicitIds} :
             \E resp \in download_fileobj_responses(buckets, bucket_name,
                                                    object_key) :
             LET r == s3_download_presentation_from_s3(
                          buckets, bucket_name, object_key, resp)
                 new_id == IF id = None
                           THEN format_id(Cardinality(DOMAIN presentations) + 1)
                           ELSE id[1]
             IN  /\ (r.out.kind = "return" /\ id = None)
                        => Cardinality(DOMAIN presentations) < MaxPres
                 /\ call' = [tool |-> "download_presentation_from_s3",
                             connection_name |-> connection_name,
                             id |-> id]
                 /\ requests' = r.requests
                 /\ raised' = r.out.kind
                 /\ IF r.out.kind = "return"
                    THEN /\ presentations' =
                                Store(presentations, new_id, r.out.value)
                         /\ ret' = [success |-> TRUE,
                                    presentation_id |-> new_id,
                                    bucket |-> bucket_name,
                                    key |-> object_key,
                                    connection_name |-> connection_name,
                                    slide_count |-> r.out.value.slides]
                    ELSE /\ presentations' = presentations
                         /\ ret' = IF r.out.kind = "FileNotFoundError"
                                   THEN [error |-> str(r.out)]
                                   ELSE [error |-> <<"Failed to download presentation: ">>
                                                   \o str(r.out)]
                 /\ UNCHANGED <<s3_clients, current_presentation_id,
                                buckets, last_upload, path_vars, escaped, try_vars>>

list_s3_presentations ==
    \E connection_name \in ConnNames :
        IF ~is_configured(connection_name, s3_clients)
        THEN Refuse("list_s3_presentations", connection_name,
                    NotConfigured(connection_name))
        ELSE \E bucket_name \in BucketNames, prefix \in Prefixes,
                max_keys \in 0..MaxKeys :
             \E resp \in list_objects_v2_responses(
                             buckets, list_args(bucket_name, prefix, max_keys)) :
             LET r == s3_list_s3_objects(buckets, bucket_name, prefix,
                                         max_keys, resp)
             IN  /\ call' = [tool |-> "list_s3_presentations",
                             connection_name |-> connection_name]
                 /\ requests' = r.requests
                 /\ raised' = r.out.kind
                 /\ ret' = IF r.out.kind = "return"
                           THEN [bucket |-> r.out.value.bucket,
                                 prefix |-> r.out.value.prefix,
                                 object_count |-> r.out.value.object_count,
                                 objects |-> r.out.value.objects,
                                 is_truncated |-> r.out.value.is_truncated,
                                 connection_name |-> connection_name]
                           ELSE [error |-> <<"Failed to list S3 objects: ">>
                                           \o str(r.out)]
                 /\ UNCHANGED <<s3_clients, presentations,
                                current_presentation_id, buckets, last_upload,
                                path_vars, escaped, try_vars>>

delete_s3_presentation ==
    \E connection_name \in ConnNames :
        IF ~is_configured(connection_name, s3_clients)
        THEN Refuse("delete_s3_presentation", connection_name,
                    NotConfigured(connection_name))
        ELSE \E <<bucket_name, object_key>> \in Locations :
             \E resp \in delete_object_responses(buckets, bucket_name) :
             LET r == s3_delete_s3_object(buckets, bucket_name,
                                          object_key, resp)
             IN  /\ call' = [tool |-> "delete_s3_presentation",
                             connection_name |-> connection_name,
                             bucket_name |-> bucket_name,
                             object_key |-> object_key,
                             existed |-> HasObject(buckets, bucket_name,
                                                   object_key)]
                 /\ requests' = r.requests
                 /\ raised' = r.out.kind
                 /\ buckets' = r.store
                 /\ IF r.out.kind = "return"
                    THEN /\ ret' = [success |-> TRUE,
                                    bucket |-> bucket_name,
                                    key |-> object_key,
                                    message |-> r.out.value.message,
                                    connection_name |-> connection_name]
                         /\ last_upload' =
                                [k \in DOMAIN last_upload \
                                        {<<bucket_name, object_key>>}
                                    |-> last_upload[k]]
                    ELSE /\ ret' = [error |-> <<"Failed to delete S3 object: ">>
                                              \o str(r.out)]
                         /\ last_upload' = last_upload
                 /\ UNCHANGED <<s3_clients, presentations,
                                current_presentation_id, path_vars, escaped, try_vars>>

get_s3_presentation_info ==
    \E connection_name \in ConnNames :
        IF ~is_configured(connection_name, s3_clients)
        THEN Refuse("get_s3_presentation_info", connection_name,
                    NotConfigured(connection_name))
        ELSE \E <<bucket_name, object_key>> \in Locations :
             \E resp \in head_object_responses(buckets, bucket_name,
                                               object_key) :
             LET r == s3_get_s3_object_metadata(buckets, bucket_name,
                                                object_key, resp)
             IN  /\ call' = [tool |-> "get_s3_presentation_info",
                             connection_name |-> connection_name]
                 /\ requests' = r.requests
                 /\ raised' = r.out.kind
                 /\ ret' = IF r.out.kind = "return"
                           THEN [bucket |-> r.out.value.bucket,
                                 key |-> r.out.value.key,
                                 size_bytes |-> r.out.value.size_bytes,
                                 content_type |-> r.out.value.content_type,
                                 connection_name |-> connection_name]
                           ELSE IF r.out.kind = "FileNotFoundError"
                           THEN [error |-> str(r.out)]
                           ELSE [error |-> <<"Failed to get S3 object metadata: ">>
                                           \o str(r.out)]
                 /\ UNCHANGED <<s3_clients, presentations,
                                current_presentation_id, buckets, last_upload,
                                path_vars, escaped, try_vars>>

list_s3_connections ==
    /\ call' = [tool |-> "list_s3_connections"]
    /\ ret' = [connections |-> DOMAIN s3_clients,
               count |-> Cardinality(DOMAIN s3_clients)]
    /\ requests' = <<>>
    /\ raised' = "none"
    /\ UNCHANGED <<s3_clients, presentations, current_presentation_id,
                   buckets, last_upload, path_vars, escaped, try_vars>>

\* ---- tools/s3_xlsx_tools.py
\* the bytes of a workbook whose active sheet, named "Sheet", has n rows
Workbook(n) == <<80, 75, 88, n>>
IsWorkbook(bytes) == Len(bytes) = 4 /\ SubSeq(bytes, 1, 3) = <<80, 75, 88>>

SheetNames == {None, Some("Sheet"), Some("missing")}

\* s3.get_object of the module's own client
get_object_responses(store, bucket, key) ==
    Faults \cup (IF bucket \notin DOMAIN store
                 THEN {ClientError("NoSuchBucket")}
                 ELSE IF key \notin DOMAIN store[bucket]
                 THEN {ClientError("NoSuchKey")}
                 ELSE {Ok})

\* load_workbook(...), wb[sheet] or wb.active, len(list(ws.values))
load_workbook(bytes, sheet) ==
    IF ~IsWorkbook(bytes)
    THEN Raise("InvalidFileException", <<"File is not a zip file">>)
    ELSE IF sheet # None /\ sheet[1] # "Sheet"
    THEN Raise("KeyError", <<"Worksheet ", sheet[1], " does not exist.">>)
    ELSE Return(bytes[4])

\* the sheet has the columns x and y; the first row is the header
build_slides_from_s3_xlsx ==
    \E <<bucket, key>> \in Locations, sheet \in SheetNames,
       add_table \in BOOLEAN :
    \E resp \in get_object_responses(buckets, bucket, key) :
        LET args    == [api |-> "get_object", Bucket |-> bucket, Key |-> key]
            rows    == IF resp = Ok
                       THEN load_workbook(buckets[bucket][key], sheet)
                       ELSE Raise(resp.kind, <<resp.code>>)
            fault   == IF rows.kind # "return" THEN rows.kind
                       ELSE IF rows.value = 0 THEN "IndexError"
                       ELSE "none"
            pres_id == current_presentation_id
            added   == (IF add_table THEN 1 ELSE 0) + 1
        IN  /\ call' = [tool |-> "build_slides_from_s3_xlsx"]
            /\ requests' = Logged(args, resp)
            /\ raised' = "none"
            /\ escaped' = fault
            /\ IF fault # "none"
               THEN /\ ret' = EmptyMap
                    /\ presentations' = presentations
               ELSE IF pres_id = None \/ pres_id[1] \notin DOMAIN presentations
               THEN /\ ret' = [error |-> <<"No presentation loaded. Create or open one first.">>]
                    /\ presentations' = presentations
               ELSE /\ presentations[pres_id[1]].slides + added <= MaxSlides
                    /\ presentations' =
                           [presentations EXCEPT ![pres_id[1]].slides = @ + added]
                    /\ ret' = [presentation_id |-> pres_id[1],
                               rows |-> rows.value - 1,
                               x_col |-> "x", y_cols |-> <<"y">>]
            /\ UNCHANGED <<s3_clients, current_presentation_id, buckets,
                           last_upload, path_vars, try_vars>>

\* ----------------------------------------------------------- specifications
\* a request is drawn when the process starts; the call answers it once
Requests ==
    [file_path : RawPaths, base_dir : BaseDirs, allow_absolute : BOOLEAN]

\* try_multiple_approaches before it was called
IdleTry ==
    /\ try_in = [operation_name |-> "", approaches |-> <<>>]
    /\ try_out = [kind |-> "pending"]

\* the S3 tools before any of them was called
IdleS3 ==
    /\ s3_clients = EmptyMap
    /\ call = [tool |-> "none"]
    /\ ret = EmptyMap
    /\ raised = "none"
    /\ requests = <<>>
    /\ last_upload = EmptyMap
    /\ escaped = "none"

InitPath ==
    /\ links \in FileSystems
    /\ san_in \in Requests
    /\ san_out = Raised("pending")
    /\ IdleS3
    /\ IdleTry
    /\ presentations = EmptyMap
    /\ current_presentation_id = None
    /\ buckets = [b \in ExistingBuckets |-> EmptyMap]

SanitizePath ==
    /\ san_out.kind = "pending"
    /\ san_out' = sanitize_path(san_in.file_path, san_in.base_dir,
                                san_in.allow_absolute, links)
    /\ UNCHANGED <<links, san_in, s3_vars, try_vars>>

NextPath == SanitizePath

SpecPath == InitPath /\ [][NextPath]_vars

\* the call of try_multiple_approaches is drawn when the process starts
TryRequests ==
    [operation_name : OperationNames,
     approaches : SeqsUpTo(Approaches, MaxApproaches)]

InitTry ==
    /\ try_in \in TryRequests
    /\ try_out = [kind |-> "pending"]
    /\ IdleS3
    /\ links = NoLinks
    /\ san_in = [file_path |-> PathStr(FALSE, <<>>), base_dir |-> None,
                 allow_absolute |-> FALSE]
    /\ san_out = Raised("pending")
    /\ presentations = EmptyMap
    /\ current_presentation_id = None
    /\ buckets = [b \in ExistingBuckets |-> EmptyMap]

TryMultipleApproaches ==
    /\ try_out.kind = "pending"
    /\ try_out' = try_multiple_approaches(try_in.operation_name,
                                          try_in.approaches)
    /\ UNCHANGED <<try_in, path_vars, s3_vars>>

NextTry == TryMultipleApproaches

SpecTry == InitTry /\ [][NextTry]_vars

\* the presentation stores and the bucket contents the server starts with
InitialPresentations ==
    {EmptyMap, [i \in {"presentation_1"} |-> Deck1],
     [i \in {"presentation_2"} |-> Deck2],
     [i \in {"presentation_1", "presentation_2"} |->
         IF i = "presentation_1" THEN Deck1 ELSE Deck2]}

InitialBuckets ==
    {[b \in ExistingBuckets |-> EmptyMap],
     [b \in ExistingBuckets |-> [k \in {"k2"} |-> Garbage]]}

InitS3 ==
    /\ IdleS3
    /\ IdleTry
    /\ presentations \in InitialPresentations
    /\ current_presentation_id \in {None, Some("presentation_1")}
    /\ buckets \in InitialBuckets
    /\ links = NoLinks
    /\ san_in = [file_path |-> PathStr(FALSE, <<>>), base_dir |-> None,
                 allow_absolute |-> FALSE]
    /\ san_out = Raised("pending")

NextS3 ==
    \/ configure_s3_connection
    \/ upload_presentation_to_s3
    \/ download_presentation_from_s3
    \/ delete_s3_presentation
    \/ list_s3_presentations
    \/ get_s3_presentation_info
    \/ list_s3_connections

SpecS3 == InitS3 /\ [][NextS3]_vars

\* the bucket holds a workbook, or bytes that are none
XlsxBuckets ==
    {[b \in ExistingBuckets |-> [k \in {"k1"} |-> Workbook(n)]] :
        n \in 0..MaxRows}
    \cup {[b \in ExistingBuckets |-> [k \in {"k1"} |-> Garbage]]}

InitXlsx ==
    /\ IdleS3
    /\ IdleTry
    /\ presentations \in InitialPresentations
    /\ current_presentation_id \in {None, Some("presentation_1")}
    /\ buckets \in XlsxBuckets
    /\ links = NoLinks
    /\ san_in = [file_path |-> PathStr(FALSE, <<>>), base_dir |-> None,
                 allow_absolute |-> FALSE]
    /\ san_out = Raised("pending")

NextXlsx == build_slides_from_s3_xlsx

SpecXlsx == InitXlsx /\ [][NextXlsx]_vars

\* ------------------------------------------------- path sanitizer claims
Done == san_out.kind # "pending"

\* the canonical base directory of the request
CanonBase ==
    LET base == IF san_in.base_dir = None THEN PathStr(TRUE, getcwd)
                ELSE san_in.base_dir[1]
    IN  joinrealpath(IF base.abs THEN <<>> ELSE getcwd, base.segs, links)

\* the canonical form of the request's path taken relative to the base
CanonJoined == joinrealpath(CanonBase, san_in.file_path.segs, links)

\* b is p or an ancestor directory of p
IsPrefixOf(b, p) == \E k \in 0..Len(p) : SubSeq(p, 1, k) = b

\* absolute, no ".", ".." or empty piece, no symbolic link on the way
IsCanonical(p) ==
    /\ p.abs
    /\ \A i \in 1..Len(p.segs) :
           /\ p.segs[i] \in Names
           /\ SubSeq(p.segs, 1, i) \notin DOMAIN links

\* "." and ".." resolved on the text alone
RECURSIVE Normalize(_, _)
Normalize(stack, segs) ==
    IF segs = <<>> THEN stack
    ELSE LET h == Head(segs)
         IN  IF h \in {"", "."} THEN Normalize(stack, Tail(segs))
             ELSE IF h = ".." /\ stack # <<>> /\ stack[Len(stack)] # ".."
                  THEN Normalize(Front(stack), Tail(segs))
             ELSE Normalize(Append(stack, h), Tail(segs))

OnlyDotDot(segs) ==
    /\ Len(segs) >= 1
    /\ \A i \in 1..Len(segs) : segs[i] = ".."

\* C1: with allow_absolute = false, a returned path is absolute, canonical
\* and equal to or below the canonical base_dir.
C1_ReturnedInsideBase ==
    (Done /\ ~san_in.allow_absolute /\ san_out.kind = "return")
        => /\ IsCanonical(san_out.path)
           /\ IsPrefixOf(CanonBase, san_out.path.segs)

C1_Witness ==
    /\ Done /\ ~san_in.allow_absolute /\ san_out.kind = "return"
    /\ \E i \in 1..Len(san_in.file_path.segs) : san_in.file_path.segs[i] = ".."
    /\ Len(san_out.path.segs) > Len(CanonBase)

\* C2: a relative path whose canonical form lies outside base_dir fails with
\* the path-traversal error, also when a prefix of it stays inside base_dir.
C2_EscapeRejected ==
    (/\ Done /\ ~san_in.allow_absolute /\ ~san_in.file_path.abs
     /\ ~IsPrefixOf(CanonBase, CanonJoined))
        => san_out.kind = "PathTraversal"

C2_Witness ==
    /\ Done /\ ~san_in.allow_absolute /\ san_in.base_dir = None
    /\ san_in.file_path = PathStr(FALSE, <<"a", "..", "..", "ab">>)
    /\ links = NoLinks
    /\ san_out.kind = "PathTraversal"

\* C3 as stated: every absolute path with allow_absolute = false returns
\* base_dir joined with the final segment, and never raises.
C3_AbsoluteNeverRaises ==
    (Done /\ ~san_in.allow_absolute /\ san_in.file_path.abs)
        => /\ san_out.kind = "return"
           /\ san_out.path.segs =
                  CanonBase \o parts(<<name(san_in.file_path)>>)

\* C3 amended: only the final segment of an absolute path is used; the
\* result is base_dir joined with it when it is a plain name that is no
\* symbolic link under base_dir, base_dir itself when there is none, and the
\* call raises when the final segment is ".." and base_dir is not the root,
\* or when it is a symbolic link that leads outside base_dir.
C3_AbsoluteUsesNameOnly ==
    (Done /\ ~san_in.allow_absolute /\ san_in.file_path.abs)
        => LET nm == name(san_in.file_path)
           IN  /\ (nm \in Names /\ Append(CanonBase, nm) \notin DOMAIN links)
                     => /\ san_out.kind = "return"
                        /\ san_out.path.segs = Append(CanonBase, nm)
               /\ nm = ""
                     => /\ san_out.kind = "return"
                        /\ san_out.path.segs = CanonBase
               /\ (nm = ".." /\ CanonBase # <<>>)
                     => san_out.kind = "PathTraversal"
               /\ san_out.kind = "return"
                     => san_out.path.segs =
                            joinrealpath(CanonBase, <<nm>>, links)
               /\ san_out.kind = "PathTraversal"
                     <=> ~IsPrefixOf(CanonBase,
                                     joinrealpath(CanonBase, <<nm>>, links))

C3_Witness ==
    /\ Done /\ ~san_in.allow_absolute
    /\ san_in.file_path = PathStr(TRUE, <<"ab", "l", "a">>)
    /\ san_in.base_dir = None
    /\ san_out = Returned(PathStr(TRUE, <<"a", "a">>))

\* C4: an absolute path with allow_absolute = true is returned canonicalized,
\* inside base_dir or not, and the call never raises.
C4_AllowAbsoluteReturnsCanonical ==
    (Done /\ san_in.allow_absolute /\ san_in.file_path.abs)
        => /\ san_out.kind = "return"
           /\ san_out.path =
                  PathStr(TRUE, joinrealpath(<<>>, san_in.file_path.segs, links))

C4_Witness ==
    /\ Done /\ san_in.allow_absolute /\ san_in.file_path.abs
    /\ san_out.kind = "return"
    /\ ~IsPrefixOf(CanonBase, san_out.path.segs)

\* C5 as stated: a path of n >= 1 ".." segments fails for every base_dir.
C5_DotDotAlwaysRejected ==
    (/\ Done /\ ~san_in.allow_absolute /\ ~san_in.file_path.abs
     /\ OnlyDotDot(san_in.file_path.segs))
        => san_out.kind = "PathTraversal"

\* C5 amended: a path of n >= 1 ".." segments fails for every base_dir other
\* than the filesystem root, however deep base_dir is; under the root it
\* returns the root.
C5_DotDotRejectedBelowRoot ==
    (/\ Done /\ ~san_in.allow_absolute /\ ~san_in.file_path.abs
     /\ OnlyDotDot(san_in.file_path.segs))
        => IF CanonBase # <<>>
           THEN san_out.kind = "PathTraversal"
           ELSE san_out = Returned(PathStr(TRUE, <<>>))

C5_Witness ==
    /\ Done /\ ~san_in.allow_absolute
    /\ san_in.file_path = PathStr(FALSE, <<"..">>)
    /\ Len(CanonBase) = 2
    /\ san_out.kind = "PathTraversal"

C7_EmptyIsBase ==
    (/\ Done /\ ~san_in.allow_absolute
     /\ san_in.file_path = PathStr(FALSE, <<>>))
        => san_out = Returned(PathStr(TRUE, CanonBase))

C7_Witness ==
    /\ Done /\ ~san_in.allow_absolute
    /\ san_in.file_path = PathStr(FALSE, <<>>)
    /\ san_in.base_dir = Some(PathStr(TRUE, <<"l">>))
    /\ links = LinkIn
    /\ san_out = Returned(PathStr(TRUE, <<"a", "ab">>))

\* the walk of the pieces rest from the canonical directory cur steps on a
\* symbolic link that lies inside base_dir and leads outside of it; with
\* final, the link is the last piece of the walk
RECURSIVE StepsOnOutLink(_, _, _)
StepsOnOutLink(cur, rest, final) ==
    IF rest = <<>> THEN FALSE
    ELSE LET nm == Head(rest)
             tl == Tail(rest)
         IN  IF nm \in {"", "."} THEN StepsOnOutLink(cur, tl, final)
             ELSE IF nm = ".."
             THEN StepsOnOutLink(IF cur = <<>> THEN <<>> ELSE Front(cur),
                                 tl, final)
             ELSE LET at     == Append(cur, nm)
                      target == joinrealpath(cur, <<nm>>, links)
                  IN  \/ /\ at \in DOMAIN links
                         /\ IsPrefixOf(CanonBase, at)
                         /\ ~IsPrefixOf(CanonBase, target)
                         /\ final => parts(tl) = <<>>
                      \/ StepsOnOutLink(target, tl, final)

PassesOutLink == StepsOnOutLink(CanonBase, san_in.file_path.segs, FALSE)
EndsOnOutLink == StepsOnOutLink(CanonBase, san_in.file_path.segs, TRUE)

\* C20 as stated: a relative path that passes through a symbolic link inside
\* base_dir whose target lies outside base_dir fails with the path-traversal
\* error.
C20_OutLinkAlwaysRejected ==
    (/\ Done /\ ~san_in.allow_absolute /\ ~san_in.file_path.abs
     /\ PassesOutLink)
        => san_out.kind = "PathTraversal"

\* C20 amended: such a path fails exactly when its fully resolved form lies
\* outside the resolved base_dir, as it does whenever the link is its last
\* piece; when later pieces lead back inside, the resolved path is returned.
C20_OutLinkJudgedAfterResolution ==
    (/\ Done /\ ~san_in.allow_absolute /\ ~san_in.file_path.abs
     /\ PassesOutLink)
        => /\ san_out.kind = "PathTraversal"
                  <=> ~IsPrefixOf(CanonBase, CanonJoined)
           /\ san_out.kind # "PathTraversal"
                  => san_out = Returned(PathStr(TRUE, CanonJoined))
           /\ EndsOnOutLink => san_out.kind = "PathTraversal"

C20_Witness ==
    /\ Done /\ ~san_in.allow_absolute /\ ~san_in.file_path.abs
    /\ EndsOnOutLink
    /\ Len(san_in.file_path.segs) > 1
    /\ san_out.kind = "PathTraversal"

\* the text of the canonical path p starts with the text of the canonical
\* directory b, yet p is neither b nor below b
TextPrefixOnly(b, p) ==
    /\ b # <<>>
    /\ Len(b) <= Len(p)
    /\ SubSeq(p, 1, Len(b) - 1) = Front(b)
    /\ p[Len(b)] # b[Len(b)]
    /\ NameStartsWith(p[Len(b)], b[Len(b)])

\* C24: a relative path that resolves into a sibling directory whose name
\* merely starts with the name of base_dir fails with the path-traversal
\* error: containment is judged by whole components.
C24_SiblingPrefixRejected ==
    (/\ Done /\ ~san_in.allow_absolute /\ ~san_in.file_path.abs
     /\ TextPrefixOnly(CanonBase, CanonJoined))
        => san_out.kind = "PathTraversal"

C24_Witness ==
    /\ Done /\ ~san_in.allow_absolute /\ ~san_in.file_path.abs
    /\ CanonBase = <<"a">>
    /\ CanonJoined = <<"ab", "a">>
    /\ san_out.kind = "PathTraversal"

\* C25: for a relative path the outcome does not depend on allow_absolute:
\* with either value the resolved path is returned when it is base_dir or
\* below it, and the call fails with the path-traversal error otherwise.
C25_RelativeIgnoresAllowAbsolute ==
    (Done /\ ~san_in.file_path.abs)
        => san_out = IF IsPrefixOf(CanonBase, CanonJoined)
                     THEN Returned(PathStr(TRUE, CanonJoined))
                     ELSE Raised("PathTraversal")

C25_Witness ==
    /\ Done /\ san_in.allow_absolute /\ ~san_in.file_path.abs
    /\ san_in.file_path.segs = <<"..", "ab">>
    /\ san_in.base_dir = None
    /\ san_out.kind = "PathTraversal"

\* ---------------------------------------------- transfer adapter claims
Succeeded == "success" \in DOMAIN ret
Failed == "error" \in DOMAIN ret

IsUpload == call.tool = "upload_presentation_to_s3"
IsDownload == call.tool = "download_presentation_from_s3"

\* C8: a successful upload reports as size_bytes the exact length of the
\* serialized document, which is the buffer handed to the storage write and
\* stored whole; a storage write that failed is never reported as success.
C8_SizeIsSerializedLength ==
    /\ (IsUpload /\ Succeeded)
           => /\ Len(requests) = 1
              /\ requests[1].response = Ok
              /\ ret.size_bytes = Len(requests[1].call.Body)
              /\ ret.size_bytes =
                     Len(Serialize(presentations[ret.presentation_id]))
              /\ buckets[ret.bucket][ret.key] =
                     Serialize(presentations[ret.presentation_id])
    /\ (IsUpload /\ requests # <<>> /\ requests[1].response # Ok)
           => Failed /\ raised # "return"

C8_Witness ==
    /\ IsUpload /\ Succeeded
    /\ ret.size_bytes = 6
    /\ presentations[ret.presentation_id] = Deck2

\* C9: a successful download of a bucket/key whose last write was a
\* successful upload, with no delete in between, yields a document with the
\* slide count and the first-slide title of the uploaded one.
C9_RoundTrip ==
    (IsDownload /\ Succeeded
       /\ <<ret.bucket, ret.key>> \in DOMAIN last_upload)
        => LET sent == last_upload[<<ret.bucket, ret.key>>]
               got  == presentations[ret.presentation_id]
           IN  /\ got.slides = sent.slides
               /\ got.title = sent.title
               /\ ret.slide_count = sent.slides

C9_Witness ==
    /\ IsDownload /\ Succeeded
    /\ <<ret.bucket, ret.key>> \in DOMAIN last_upload
    /\ last_upload[<<ret.bucket, ret.key>>] = Deck2
    /\ presentations[ret.presentation_id] = Deck2
    /\ \E i \in DOMAIN presentations : presentations[i] = Deck1

\* C10: a download that the backend answers with any of its absent-object or
\* absent-bucket error codes fails with FileNotFoundError (NotFound), never
\* with the generic failure.
C10_AbsentIsNotFound ==
    (/\ IsDownload /\ requests # <<>>
     /\ requests[1].response.kind = "ClientError"
     /\ requests[1].response.code \in AbsentObjectCodes \cup AbsentBucketCodes)
        => raised = "FileNotFoundError"

\* ------------------------------------------------ metadata fetch claims
IsInfo == call.tool = "get_s3_presentation_info"
IsList == call.tool = "list_s3_presentations"
IsDelete == call.tool = "delete_s3_presentation"

\* C11: a metadata fetch fails with FileNotFoundError (NotFound) exactly when
\* the backend answers with one of its absent-object codes, and then the
\* object is indeed absent; every other failure of the backend, of whatever
\* class, is the generic failure.
C11_NotFoundIffAbsentCode ==
    (IsInfo /\ requests # <<>>)
        => LET args == requests[1].call
               resp == requests[1].response
           IN  /\ raised = "FileNotFoundError"
                      <=> (resp.kind = "ClientError"
                           /\ resp.code \in AbsentObjectCodes)
               /\ raised = "FileNotFoundError"
                      => /\ ~HasObject(buckets, args.Bucket, args.Key)
                         /\ ret = [error |-> <<"Object not found: s3://",
                                               args.Bucket, "/", args.Key>>]
               /\ (resp # Ok /\ raised # "FileNotFoundError")
                      => /\ raised = "Exception"
                         /\ Failed
               /\ resp = Ok => raised = "return"

C11_Witness ==
    /\ IsInfo /\ requests # <<>>
    /\ requests[1].response = ClientError("404")
    /\ requests[1].call.Bucket \in DOMAIN buckets
    /\ raised = "FileNotFoundError"

\* ------------------------------------------------------------ tool claims
UsesClient ==
    call.tool \in {"upload_presentation_to_s3", "download_presentation_from_s3",
                   "list_s3_presentations", "delete_s3_presentation",
                   "get_s3_presentation_info"}

\* C12: upload, download, list, delete and get-info called with a connection
\* name the registry does not hold return the 'connection not configured'
\* error and issue no request to the backend.
C12_UnregisteredRefused ==
    (UsesClient /\ call.connection_name \notin DOMAIN s3_clients)
        => /\ ret = NotConfigured(call.connection_name)
           /\ requests = <<>>
           /\ raised = "none"

C12_Witness ==
    /\ IsList
    /\ call.connection_name = "default"
    /\ DOMAIN s3_clients = {"Default"}
    /\ ret = NotConfigured("default")
    /\ requests = <<>>

\* C13: every tool invocation returns a result map that holds either success
\* fields or a single error string, never both, and no exception escapes.
C13_ResultMapNeverEscapes ==
    call.tool # "none"
        => /\ escaped = "none"
           /\ ret # EmptyMap
           /\ Failed => DOMAIN ret = {"error"}

\* the keys of the request's bucket that the request's prefix selects
MatchingKeys ==
    LET args == requests[1].call
    IN  {k \in DOMAIN buckets[args.Bucket] :
            "Prefix" \in DOMAIN args => StartsWith(k, args.Prefix)}

\* C14: a listing with max_keys = k returns at most k entries, object_count
\* is the number of entries returned, and is_truncated is true whenever the
\* bucket holds more matching objects than were returned.
C14_ListCappedAndTruncated ==
    (IsList /\ raised = "return")
        => /\ Len(ret.objects) <= requests[1].call.MaxKeys
           /\ ret.object_count = Len(ret.objects)
           /\ {ret.objects[i].key : i \in 1..Len(ret.objects)} \subseteq MatchingKeys
           /\ Cardinality(MatchingKeys) > Len(ret.objects) => ret.is_truncated

\* the answers of a backend that has no credentials or rejects them
CredentialFaults == {NoCredentialsError, ClientError("InvalidAccessKeyId")}

\* C15: an upload or download that finds no credentials, or whose
\* authentication the backend rejects, fails with the credential error kind
\* (ValueError), never with NotFound or the generic failure.
C15_CredentialFailureIsDistinct ==
    ((IsUpload \/ IsDownload) /\ requests # <<>>
       /\ requests[1].response \in CredentialFaults)
        => raised = "ValueError"

\* the parts every storage write request carries
CarriesDocument(args) ==
    /\ {"Bucket", "Key", "ContentType", "Body"} \subseteq DOMAIN args
    /\ args.ContentType = ContentType
    /\ \E i \in DOMAIN presentations :
           args.Body = Serialize(presentations[i])

\* C16 as stated: the storage write request has no metadata field when the
\* caller supplies none and carries exactly the caller's mapping whenever one
\* is supplied; bucket, key, content type and buffer are always present.
C16_MetadataWheneverSupplied ==
    (IsUpload /\ requests # <<>>)
        => LET args == requests[1].call
           IN  /\ "Metadata" \in DOMAIN args <=> call.metadata # None
               /\ "Metadata" \in DOMAIN args
                      => args.Metadata = call.metadata[1]
               /\ CarriesDocument(args)

\* C16: the storage write request has no metadata field when the caller
\* supplies none or an empty mapping, and carries exactly the caller's mapping
\* when that mapping is not empty; bucket, key, content type and buffer are
\* always present.
C16_MetadataWhenNotEmpty ==
    (IsUpload /\ requests # <<>>)
        => LET args == requests[1].call
           IN  /\ "Metadata" \in DOMAIN args
                      <=> (call.metadata # None
                           /\ DOMAIN call.metadata[1] # {})
               /\ "Metadata" \in DOMAIN args
                      => args.Metadata = call.metadata[1]
               /\ CarriesDocument(args)

C16_Witness ==
    /\ IsUpload /\ Succeeded
    /\ call.metadata = Some(<<>>)
    /\ "Metadata" \notin DOMAIN requests[1].call

\* C17: a delete the backend accepts returns the same success result whether
\* or not the key existed, and leaves the key absent; a delete in an existing
\* bucket is never refused for a missing key.
C17_DeleteExistenceBlind ==
    (IsDelete /\ requests # <<>>)
        => /\ requests[1].response = Ok
                  => /\ ret = [success |-> TRUE,
                               bucket |-> call.bucket_name,
                               key |-> call.object_key,
                               message |-> <<"Successfully deleted s3://",
                                             call.bucket_name, "/",
                                             call.object_key>>,
                               connection_name |-> call.connection_name]
                     /\ ~HasObject(buckets, call.bucket_name,
                                   call.object_key)
           /\ raised # "FileNotFoundError"
           /\ (call.bucket_name \in DOMAIN buckets /\ Failed)
                  => requests[1].response \in Faults

C17_Witness ==
    /\ IsDelete /\ Succeeded
    /\ ~call.existed
    /\ call.bucket_name \in DOMAIN buckets

\* C18: upload, download, list, delete and metadata fetch issue at most one
\* request to the storage client; a request the backend fails is reported as
\* a failure and is not issued again.
C18_AtMostOneRequest ==
    UsesClient
        => /\ Len(requests) <= 1
           /\ (requests # <<>> /\ requests[1].response # Ok) => Failed

C18_Witness ==
    /\ IsInfo
    /\ Len(requests) = 1
    /\ requests[1].response = EndpointConnectionError
    /\ Failed

\* what a state shows of the registry's use
RegistryUsedByName ==
    /\ (UsesClient /\ ret # NotConfigured(call.connection_name))
           => call.connection_name \in DOMAIN s3_clients
    /\ (call.tool = "configure_s3_connection" /\ Succeeded)
           => call.connection_name \in DOMAIN s3_clients
    /\ call.tool = "list_s3_connections"
           => ret.connections = DOMAIN s3_clients

\* C19: no tool call, successful or failing, removes a name from the
\* registry; a name whose configuration succeeded is registered, and a tool
\* call gets past the connection check only with a name that is registered.
C19_RegistryNeverLoses ==
    [][/\ DOMAIN s3_clients \subseteq DOMAIN s3_clients'
       /\ RegistryUsedByName']_vars

C19_Witness ==
    /\ DOMAIN s3_clients = {"default", "Default"}
    /\ IsDownload /\ Failed
    /\ requests # <<>>

\* --------------------------------------------- try_multiple_approaches claims
Tried == try_out.kind = "return"

\* the positions of the approaches that do not raise
Succeeding ==
    {i \in 1..Len(try_in.approaches) : ~try_in.approaches[i].func.raises}

\* "description: error" of the approaches from position i on, separated by "; "
RECURSIVE ListedFrom(_)
ListedFrom(i) ==
    IF i > Len(try_in.approaches) THEN <<>>
    ELSE <<try_in.approaches[i].description, ": ",
           try_in.approaches[i].func.value>>
         \o (IF i < Len(try_in.approaches) THEN <<"; ">> ELSE <<>>)
         \o ListedFrom(i + 1)

\* C21: the approaches are called in list order; the result of the first one
\* that does not raise is returned with no error and none after it is
\* called; when all raise, or the list is empty, the result is None and the
\* message lists every description and error in list order.
C21_FirstSuccessOrAllErrors ==
    Tried
        => IF Succeeding # {}
           THEN LET first == CHOOSE i \in Succeeding :
                                 \A j \in Succeeding : i <= j
                IN  /\ try_out.result = Some(try_in.approaches[first].func.value)
                    /\ try_out.error = None
                    /\ try_out.called = [k \in 1..first |-> k]
           ELSE /\ try_out.result = None
                /\ try_out.called = [k \in 1..Len(try_in.approaches) |-> k]
                /\ try_out.error =
                       Some(<<"Failed to ", try_in.operation_name,
                              " after trying multiple approaches: ">>
                            \o ListedFrom(1))

C21_Witness ==
    /\ Tried
    /\ Len(try_in.approaches) = 3
    /\ Succeeding = {2, 3}
    /\ try_in.approaches[2].func # try_in.approaches[3].func
    /\ try_out.called = <<1, 2>>

\* ------------------------------------------------- store and registry claims
\* C22: a successful download made without an explicit id stores the
\* document under an id the store did not hold before the call: the store
\* grows by exactly one entry and every entry it held is kept as it was.
C22_DownloadUsesFreshId ==
    [][(IsDownload' /\ Succeeded' /\ call'.id = None)
          => /\ ret'.presentation_id \notin DOMAIN presentations
             /\ Cardinality(DOMAIN presentations')
                    = Cardinality(DOMAIN presentations) + 1
             /\ \A i \in DOMAIN presentations :
                    /\ i \in DOMAIN presentations'
                    /\ presentations'[i] = presentations[i]]_vars

S3Tools ==
    {"configure_s3_connection", "upload_presentation_to_s3",
     "download_presentation_from_s3", "list_s3_presentations",
     "delete_s3_presentation", "get_s3_presentation_info",
     "list_s3_connections"}

\* C23: an S3 tool call that returns an error result leaves the connection
\* registry and the presentation store as they were before the call.
C23_ErrorLeavesStateUnchanged ==
    [][(call'.tool \in S3Tools /\ Failed')
          => /\ s3_clients' = s3_clients
             /\ presentations' = presentations]_vars

C23_Witness ==
    /\ call.tool = "configure_s3_connection" /\ Failed
    /\ DOMAIN s3_clients = {"Default"}
    /\ call.connection_name = "default"
    /\ presentations # EmptyMap

====
